---- MODULE Spec2Model ----
(***************************************************************************)
(* Model of trx-js (src/index.ts): Thread.spawn and the handle it returns  *)
(* (rx.recv, join, interrupt), the worker-side script, the message port    *)
(* and the completion port.                                                *)
(*                                                                         *)
(* Every owner-side call and every event-loop callback of the source is    *)
(* one atomic action (JavaScript runs each to completion).  The worker     *)
(* runs in parallel, so its postMessage calls interleave freely with the   *)
(* owner's tasks.                                                          *)
(***************************************************************************)
EXTENDS Integers, Sequences, FiniteSets, TLC

\* ------------------------------------------------------------------ bounds
MaxHandles == 2      \* spawn calls
MaxCalls == 5        \* owner calls in one run, a spawn counting for two
MaxWorkerSteps == 2  \* worker steps (send, return, throw, fault) in one run

\* --------------------------------------------------------- program values
mainThreadId == 0
InitialThreadIdCounter == 1
InterruptedExitCode == 1     \* join: resolve(1) when interrupted
SuccessCode == 0             \* worker: code: 0
FailureCode == 1             \* worker: code: 1, error: error.message
Null == 0                    \* completionResolve / completionReject = null
Undefined == -1              \* timeoutId / timeout = undefined

Timeouts == {500, 1000}      \* timeouts passed to join
ErrMsgs == {"", "boom"}      \* error.message of an Error thrown by the job
Faults == {"fault"}          \* event.message of a worker ErrorEvent

NoError == [kind |-> "none", msg |-> "", ms |-> 0]
ThreadError(m) == [kind |-> "Thread error: ", msg |-> m, ms |-> 0]
WorkerErrorOf(m) == [kind |-> "Worker error: ", msg |-> m, ms |-> 0]
TimeoutError(t) == [kind |-> "Thread join timed out after ", msg |-> "", ms |-> t]

VARIABLES
  threadIdCounter,  \* let threadIdCounter
  handle,           \* per spawn: the closure variables of the handle
  worker,           \* per spawn: the Worker and its script's position
  messagePort1,     \* per spawn: owner end of the message channel
  completionPort1,  \* per spawn: owner end of the completion channel
  joins,            \* the promises returned by join, in call order
  timers,           \* armed setTimeout timers (named by their join)
  recvs,            \* the promises returned by rx.recv, in call order
  interruptCalls    \* number of interrupt calls made

vars == <<threadIdCounter, handle, worker, messagePort1, completionPort1,
          joins, timers, recvs, interruptCalls>>

Handles == 1..Len(handle)

\* worker steps taken so far
RECURSIVE StepsOf(_)
StepsOf(n) == IF n = 0 THEN 0 ELSE worker[n].steps + StepsOf(n - 1)
WorkerSteps == StepsOf(Len(worker))

\* rx.onMessage calls made so far
RECURSIVE OnMessageCallsOf(_)
OnMessageCallsOf(n) ==
  IF n = 0 THEN 0 ELSE messagePort1[n].onmessage + OnMessageCallsOf(n - 1)
OnMessageCalls == OnMessageCallsOf(Len(messagePort1))

\* owner calls made so far; a spawn (a worker and two channels) weighs two
Calls == 2 * Len(handle) + Len(joins) + Len(recvs) + interruptCalls
           + OnMessageCalls

\* ------------------------------------------------------------- JS helpers
\* if (data.error): undefined and "" are falsy
Truthy(data) == data.hasError /\ data.error # ""

\* data.code || 0
CodeOrZero(c) == IF c = 0 THEN 0 ELSE c

\* Promise resolve / reject: the first call settles, later calls are ignored
Resolve(js, j, c) ==
  IF j = Null THEN js
  ELSE [js EXCEPT ![j] = IF @.state = "pending"
                         THEN [@ EXCEPT !.state = "resolved", !.code = c,
                                        !.calls = @ + 1]
                         ELSE [@ EXCEPT !.calls = @ + 1]]

Reject(js, j, e) ==
  IF j = Null THEN js
  ELSE [js EXCEPT ![j] = IF @.state = "pending"
                         THEN [@ EXCEPT !.state = "rejected", !.error = e,
                                        !.calls = @ + 1]
                         ELSE [@ EXCEPT !.calls = @ + 1]]

\* clearTimeout(timeoutId) guarded by timeoutId !== undefined
ClearTimeout(ts, id) == IF id # Undefined THEN ts \ {id} ELSE ts

\* cleanup(): completionPort1.close(); URL.revokeObjectURL(workerUrl)
cleanup(p) == [p EXCEPT !.closed = TRUE, !.queue = <<>>,
                        !.cleanupCalls = @ + 1]

\* worker.terminate()
terminate(w) == [w EXCEPT !.alive = FALSE, !.terminateCalls = @ + 1]

\* worker.removeEventListener("error", errorHandler);
\* completionPort1.removeEventListener("message", completionHandler)
removeListeners(hd) == [hd EXCEPT !.errorListener = FALSE,
                                  !.completionListener = FALSE]

\* getThreadId(): Thread.id() in the initiating context
getThreadId == mainThreadId

\* ------------------------------------------------------------------- Init
Init ==
  /\ threadIdCounter = InitialThreadIdCounter
  /\ handle = <<>>
  /\ worker = <<>>
  /\ messagePort1 = <<>>
  /\ completionPort1 = <<>>
  /\ joins = <<>>
  /\ timers = {}
  /\ recvs = <<>>
  /\ interruptCalls = 0

\* mutant: the id counter is not incremented
Spawn_sameId ==
  /\ Len(handle) < MaxHandles /\ Calls < MaxCalls
  /\ UNCHANGED threadIdCounter
  /\ handle' = Append(handle,
       [id |-> threadIdCounter,
        interrupted |-> FALSE,
        completed |-> FALSE,
        completionCode |-> 0,
        completionError |-> NoError,
        completionResolve |-> Null,
        completionReject |-> Null,
        timeoutId |-> Undefined,
        errorListener |-> TRUE,
        completionListener |-> TRUE])
  /\ worker' = Append(worker,
       [alive |-> TRUE, status |-> "running", nsent |-> 0,
        thrown |-> "", signals |-> 0, steps |-> 0, terminateCalls |-> 0])
  /\ messagePort1' = Append(messagePort1,
       [queue |-> <<>>, started |-> FALSE, listeners |-> <<>>,
        onmessage |-> Null, delivered |-> <<>>])
  /\ completionPort1' = Append(completionPort1,
       [queue |-> <<>>, closed |-> FALSE, cleanupCalls |-> 0])
  /\ UNCHANGED <<joins, timers, recvs, interruptCalls>>

\* ------------------------------------------------------------------ spawn
Spawn ==
  /\ Len(handle) < MaxHandles /\ Calls < MaxCalls
  /\ threadIdCounter' = threadIdCounter + 1
  /\ handle' = Append(handle,
       [id |-> threadIdCounter,
        interrupted |-> FALSE,
        completed |-> FALSE,
        completionCode |-> 0,
        completionError |-> NoError,
        completionResolve |-> Null,
        completionReject |-> Null,
        timeoutId |-> Undefined,
        errorListener |-> TRUE,
        completionListener |-> TRUE])
  /\ worker' = Append(worker,
       [alive |-> TRUE, status |-> "running", nsent |-> 0,
        thrown |-> "", signals |-> 0, steps |-> 0, terminateCalls |-> 0])
  /\ messagePort1' = Append(messagePort1,
       [queue |-> <<>>, started |-> FALSE, listeners |-> <<>>,
        onmessage |-> Null, delivered |-> <<>>])
  /\ completionPort1' = Append(completionPort1,
       [queue |-> <<>>, closed |-> FALSE, cleanupCalls |-> 0])
  /\ UNCHANGED <<joins, timers, recvs, interruptCalls>>

\* ----------------------------------------------------------- worker script
\* mutant: every worker posts on the message channel of the first spawn
WorkerSend_sharedPort(h) ==
  /\ worker[h].alive /\ worker[h].status = "running"
  /\ WorkerSteps < MaxWorkerSteps
  /\ worker' = [worker EXCEPT ![h].nsent = @ + 1, ![h].steps = @ + 1]
  /\ messagePort1' = [messagePort1 EXCEPT
       ![1].queue = Append(@, [data |-> worker[h].nsent + 1, error |-> ""])]
  /\ UNCHANGED <<threadIdCounter, handle, completionPort1, joins, timers,
                 recvs, interruptCalls>>

\* transmit.send(data): port.postMessage(data); the k-th send carries k
WorkerSend(h) ==
  /\ worker[h].alive /\ worker[h].status = "running"
  /\ WorkerSteps < MaxWorkerSteps
  /\ worker' = [worker EXCEPT ![h].nsent = @ + 1, ![h].steps = @ + 1]
  /\ messagePort1' = [messagePort1 EXCEPT
       ![h].queue = Append(@, [data |-> worker[h].nsent + 1, error |-> ""])]
  /\ UNCHANGED <<threadIdCounter, handle, completionPort1, joins, timers,
                 recvs, interruptCalls>>

\* postMessage on the completion channel; a closed owner end drops it
PostCompletion(p, data) ==
  IF p.closed THEN p ELSE [p EXCEPT !.queue = Append(@, data)]

\* the job returned: completionPort.postMessage({type, code: 0})
WorkerReturn(h) ==
  /\ worker[h].alive /\ worker[h].status = "running"
  /\ WorkerSteps < MaxWorkerSteps
  /\ worker' = [worker EXCEPT ![h].status = "returned", ![h].signals = @ + 1,
                              ![h].steps = @ + 1]
  /\ completionPort1' = [completionPort1 EXCEPT ![h] = PostCompletion(@,
       [type |-> "__thread_complete__", code |-> SuccessCode,
        hasError |-> FALSE, error |-> ""])]
  /\ UNCHANGED <<threadIdCounter, handle, messagePort1, joins, timers,
                 recvs, interruptCalls>>

\* the job threw: port.postMessage({error: error.message, stack});
\* completionPort.postMessage({type, code: 1, error: error.message})
WorkerThrow(h, m) ==
  /\ worker[h].alive /\ worker[h].status = "running"
  /\ WorkerSteps < MaxWorkerSteps
  /\ worker' = [worker EXCEPT ![h].status = "threw", ![h].thrown = m,
                              ![h].signals = @ + 1,
                              ![h].steps = @ + 1]
  /\ messagePort1' = [messagePort1 EXCEPT
       ![h].queue = Append(@, [data |-> 0, error |-> m])]
  /\ completionPort1' = [completionPort1 EXCEPT ![h] = PostCompletion(@,
       [type |-> "__thread_complete__", code |-> FailureCode,
        hasError |-> TRUE, error |-> m])]
  /\ UNCHANGED <<threadIdCounter, handle, joins, timers, recvs,
                 interruptCalls>>

\* ------------------------------------------------------------ errorHandler
\* the worker raises an "error" event and the listener is still attached
errorHandler(h, m) ==
  /\ worker[h].alive /\ handle[h].errorListener
  /\ WorkerSteps < MaxWorkerSteps
  /\ IF ~handle[h].completed
     THEN /\ handle' = [handle EXCEPT ![h] =
               [removeListeners(@) EXCEPT !.completed = TRUE,
                                          !.completionError = WorkerErrorOf(m)]]
          /\ timers' = ClearTimeout(timers, handle[h].timeoutId)
          /\ worker' = [worker EXCEPT ![h] = terminate([@ EXCEPT !.steps = @ + 1])]
          /\ completionPort1' = [completionPort1 EXCEPT ![h] = cleanup(@)]
          /\ joins' = Reject(joins, handle[h].completionReject,
                             WorkerErrorOf(m))
     ELSE /\ worker' = [worker EXCEPT ![h].steps = @ + 1]
          /\ UNCHANGED <<handle, timers, completionPort1, joins>>
  /\ UNCHANGED <<threadIdCounter, messagePort1, recvs, interruptCalls>>

\* ------------------------------------------------------- completionHandler
\* a message event on completionPort1 (started at spawn, not closed)
completionHandler(h) ==
  /\ ~completionPort1[h].closed
  /\ completionPort1[h].queue # <<>>
  /\ LET data == Head(completionPort1[h].queue)
         rest == [completionPort1[h] EXCEPT !.queue = Tail(@)]
     IN IF /\ handle[h].completionListener
           /\ data.type = "__thread_complete__"
           /\ ~handle[h].completed
        THEN /\ timers' = ClearTimeout(timers, handle[h].timeoutId)
             /\ completionPort1' = [completionPort1 EXCEPT ![h] = cleanup(rest)]
             /\ IF Truthy(data)
                THEN /\ handle' = [handle EXCEPT ![h] =
                          [removeListeners(@) EXCEPT
                             !.completed = TRUE,
                             !.completionError = ThreadError(data.error)]]
                     /\ joins' = Reject(joins, handle[h].completionReject,
                                        ThreadError(data.error))
                ELSE /\ handle' = [handle EXCEPT ![h] =
                          [removeListeners(@) EXCEPT
                             !.completed = TRUE,
                             !.completionCode = CodeOrZero(data.code)]]
                     /\ joins' = Resolve(joins, handle[h].completionResolve,
                                         CodeOrZero(data.code))
        ELSE /\ completionPort1' = [completionPort1 EXCEPT ![h] = rest]
             /\ UNCHANGED <<handle, timers, joins>>
  /\ UNCHANGED <<threadIdCounter, worker, messagePort1, recvs, interruptCalls>>

\* -------------------------------------------------------------------- join
\* the promise of a join call; timeout is the value captured by the timer
\* callback, so it is kept only by a call that goes on to wait
NewJoin(h, timeout) ==
  [h |-> h,
   timeout |-> IF handle[h].interrupted \/ handle[h].completed
               THEN Undefined ELSE timeout,
   state |-> "pending", code |-> 0, error |-> NoError, calls |-> 0,
   atCall |-> IF handle[h].interrupted THEN "interrupted"
              ELSE IF handle[h].completed THEN "completed" ELSE "running"]

\* mutant: the stored outcome is tested before the interrupted flag
SettleNow_completedFirst(js, j, hd) ==
  IF hd.completionError # NoError THEN Reject(js, j, hd.completionError)
  ELSE IF hd.interrupted THEN Resolve(js, j, InterruptedExitCode)
  ELSE Resolve(js, j, hd.completionCode)

\* mutant: the stored error is ignored
SettleNow_ignoreError(js, j, hd) ==
  IF hd.interrupted THEN Resolve(js, j, InterruptedExitCode)
  ELSE Resolve(js, j, hd.completionCode)

\* mutant: the interrupted branch does not return and falls through to the
\* stored outcome
SettleNow_fallThrough(js, j, hd) ==
  LET js1 == IF hd.interrupted THEN Resolve(js, j, InterruptedExitCode)
             ELSE js
  IN IF hd.completionError # NoError
     THEN Reject(js1, j, hd.completionError)
     ELSE Resolve(js1, j, hd.completionCode)

\* join on a terminal handle: interrupted is tested first, then the stored
\* error, then the stored code
SettleNow(js, j, hd) ==
  IF hd.interrupted THEN Resolve(js, j, InterruptedExitCode)
  ELSE IF hd.completionError # NoError THEN Reject(js, j, hd.completionError)
  ELSE Resolve(js, j, hd.completionCode)

\* mutant: the timer is armed whether a timeout was passed or not
join_alwaysArm(h, timeout) ==
  /\ Calls < MaxCalls
  /\ LET j == Len(joins) + 1
         js == Append(joins, NewJoin(h, timeout))
     IN IF handle[h].interrupted \/ handle[h].completed
        THEN /\ joins' = SettleNow(js, j, handle[h])
             /\ UNCHANGED <<handle, timers>>
        ELSE /\ joins' = js
             /\ handle' = [handle EXCEPT ![h].completionResolve = j,
                                         ![h].completionReject = j,
                                         ![h].timeoutId = j]
             /\ timers' = timers \cup {j}
  /\ UNCHANGED <<threadIdCounter, worker, messagePort1, completionPort1,
                 recvs, interruptCalls>>

join(h, timeout) ==
  /\ Calls < MaxCalls
  /\ LET j == Len(joins) + 1
         js == Append(joins, NewJoin(h, timeout))
     IN IF handle[h].interrupted \/ handle[h].completed
        THEN /\ joins' = SettleNow(js, j, handle[h])
             /\ UNCHANGED <<handle, timers>>
        ELSE /\ joins' = js
             /\ IF timeout # Undefined
                THEN /\ handle' = [handle EXCEPT ![h].completionResolve = j,
                                                 ![h].completionReject = j,
                                                 ![h].timeoutId = j]
                     /\ timers' = timers \cup {j}
                ELSE /\ handle' = [handle EXCEPT ![h].completionResolve = j,
                                                 ![h].completionReject = j]
                     /\ UNCHANGED timers
  /\ UNCHANGED <<threadIdCounter, worker, messagePort1, completionPort1,
                 recvs, interruptCalls>>

\* setTimeout ordering: a timer armed earlier with a delay that is not
\* longer fires first
TimerDue(j) ==
  /\ j \in timers
  /\ \A k \in timers : k < j => joins[k].timeout > joins[j].timeout

\* mutant: the timer callback does not terminate the worker
joinTimeout_noTerminate(j) ==
  /\ TimerDue(j)
  /\ timers' = timers \ {j}
  /\ LET h == joins[j].h
     IN IF ~handle[h].completed
        THEN /\ handle' = [handle EXCEPT ![h] =
                  [removeListeners(@) EXCEPT
                     !.completed = TRUE,
                     !.completionError = TimeoutError(joins[j].timeout)]]
             /\ completionPort1' = [completionPort1 EXCEPT ![h] = cleanup(@)]
             /\ joins' = Reject(joins, j, TimeoutError(joins[j].timeout))
             /\ UNCHANGED worker
        ELSE UNCHANGED <<handle, worker, completionPort1, joins>>
  /\ UNCHANGED <<threadIdCounter, messagePort1, recvs, interruptCalls>>

\* mutant: the timer callback does not test completed
joinTimeout_noGuard(j) ==
  /\ TimerDue(j)
  /\ timers' = timers \ {j}
  /\ LET h == joins[j].h
     IN /\ handle' = [handle EXCEPT ![h] =
             [removeListeners(@) EXCEPT
                !.completed = TRUE,
                !.completionError = TimeoutError(joins[j].timeout)]]
        /\ worker' = [worker EXCEPT ![h] = terminate(@)]
        /\ completionPort1' = [completionPort1 EXCEPT ![h] = cleanup(@)]
        /\ joins' = Reject(joins, j, TimeoutError(joins[j].timeout))
  /\ UNCHANGED <<threadIdCounter, messagePort1, recvs, interruptCalls>>

\* the setTimeout callback of join call j
joinTimeout(j) ==
  /\ TimerDue(j)
  /\ timers' = timers \ {j}
  /\ LET h == joins[j].h
     IN IF ~handle[h].completed
        THEN /\ handle' = [handle EXCEPT ![h] =
                  [removeListeners(@) EXCEPT
                     !.completed = TRUE,
                     !.completionError = TimeoutError(joins[j].timeout)]]
             /\ worker' = [worker EXCEPT ![h] = terminate(@)]
             /\ completionPort1' = [completionPort1 EXCEPT ![h] = cleanup(@)]
             /\ joins' = Reject(joins, j, TimeoutError(joins[j].timeout))
        ELSE UNCHANGED <<handle, worker, completionPort1, joins>>
  /\ UNCHANGED <<threadIdCounter, messagePort1, recvs, interruptCalls>>

\* --------------------------------------------------------------- interrupt
\* mutant: a further call flips the interrupted flag back
interrupt_toggle(h) ==
  /\ Calls < MaxCalls
  /\ interruptCalls' = interruptCalls + 1
  /\ handle' = [handle EXCEPT ![h] =
       [removeListeners(@) EXCEPT !.interrupted = ~@, !.completed = TRUE]]
  /\ worker' = [worker EXCEPT ![h] = terminate(@)]
  /\ completionPort1' = [completionPort1 EXCEPT ![h] = cleanup(@)]
  /\ UNCHANGED <<threadIdCounter, messagePort1, joins, timers, recvs>>

\* mutant: cleanup also empties the owner's message port
interrupt_closePort(h) ==
  /\ Calls < MaxCalls
  /\ interruptCalls' = interruptCalls + 1
  /\ handle' = [handle EXCEPT ![h] =
       [removeListeners(@) EXCEPT !.interrupted = TRUE, !.completed = TRUE]]
  /\ worker' = [worker EXCEPT ![h] = terminate(@)]
  /\ completionPort1' = [completionPort1 EXCEPT ![h] = cleanup(@)]
  /\ messagePort1' = [messagePort1 EXCEPT ![h].queue = <<>>]
  /\ UNCHANGED <<threadIdCounter, joins, timers, recvs>>

interrupt(h) ==
  /\ Calls < MaxCalls
  /\ interruptCalls' = interruptCalls + 1
  /\ handle' = [handle EXCEPT ![h] =
       [removeListeners(@) EXCEPT !.interrupted = TRUE, !.completed = TRUE]]
  /\ worker' = [worker EXCEPT ![h] = terminate(@)]
  /\ completionPort1' = [completionPort1 EXCEPT ![h] = cleanup(@)]
  /\ UNCHANGED <<threadIdCounter, messagePort1, joins, timers, recvs>>

\* ------------------------------------------------------------ rx.onMessage
\* messagePort1.onmessage = (event) => callback(event.data);
\* messagePort1.start(); the k-th call on a handle installs callback k in
\* place of the one before
onMessage(h) ==
  /\ Calls < MaxCalls
  /\ messagePort1' = [messagePort1 EXCEPT
       ![h].onmessage = @ + 1,
       ![h].started = TRUE]
  /\ UNCHANGED <<threadIdCounter, handle, worker, completionPort1, joins,
                 timers, recvs, interruptCalls>>

\* ----------------------------------------------------------------- rx.recv
\* addEventListener("message", handler); messagePort1.start()
recv(h) ==
  /\ Calls < MaxCalls
  /\ recvs' = Append(recvs, [h |-> h, state |-> "pending", data |-> 0,
                             error |-> "", calls |-> 0,
                             early |-> (worker[h].steps = 0),
                             dead |-> ~worker[h].alive,
                             at |-> worker[h].nsent
                                      + (IF worker[h].status = "threw"
                                         THEN 1 ELSE 0)
                                      - Len(messagePort1[h].queue)])
  /\ messagePort1' = [messagePort1 EXCEPT
       ![h].listeners = Append(@, Len(recvs) + 1),
       ![h].started = TRUE]
  /\ UNCHANGED <<threadIdCounter, handle, worker, completionPort1, joins,
                 timers, interruptCalls>>

\* resolve(event.data) of recv call r
ResolveRecv(rs, r, msg) ==
  [rs EXCEPT ![r] = IF @.state = "pending"
                    THEN [@ EXCEPT !.state = "resolved", !.data = msg.data,
                                   !.error = msg.error, !.calls = @ + 1]
                    ELSE [@ EXCEPT !.calls = @ + 1]]

RECURSIVE DispatchTo(_, _, _)
DispatchTo(rs, ls, msg) ==
  IF ls = <<>> THEN rs
  ELSE DispatchTo(ResolveRecv(rs, Head(ls), msg), Tail(ls), msg)

\* the onmessage handler, when one is installed: callback(event.data)
Callback(p, msg) ==
  IF p.onmessage = Null THEN p.delivered
  ELSE Append(p.delivered,
              [cb |-> p.onmessage, data |-> msg.data, error |-> msg.error])

\* a message event on messagePort1: the started port dispatches the oldest
\* queued message to the onmessage handler and to every listener attached at
\* that moment; each recv handler removes itself and resolves its promise
messageEvent(h) ==
  /\ messagePort1[h].started
  /\ messagePort1[h].queue # <<>>
  /\ recvs' = DispatchTo(recvs, messagePort1[h].listeners,
                         Head(messagePort1[h].queue))
  /\ messagePort1' = [messagePort1 EXCEPT
       ![h].delivered = Callback(messagePort1[h], Head(messagePort1[h].queue)),
       ![h].queue = Tail(@),
       ![h].listeners = <<>>]
  /\ UNCHANGED <<threadIdCounter, handle, worker, completionPort1, joins,
                 timers, interruptCalls>>

\* -------------------------------------------------------------------- Next
Next ==
  \/ Spawn
  \/ \E h \in Handles : WorkerSend(h)
  \/ \E h \in Handles : WorkerReturn(h)
  \/ \E h \in Handles, m \in ErrMsgs : WorkerThrow(h, m)
  \/ \E h \in Handles, m \in Faults : errorHandler(h, m)
  \/ \E h \in Handles : completionHandler(h)
  \/ \E h \in Handles, t \in Timeouts \cup {Undefined} : join(h, t)
  \/ \E j \in 1..Len(joins) : joinTimeout(j)
  \/ \E h \in Handles : interrupt(h)
  \/ \E h \in Handles : onMessage(h)
  \/ \E h \in Handles : recv(h)
  \/ \E h \in Handles : messageEvent(h)

Spec == Init /\ [][Next]_vars

\* ================================================================= claims
Joins == 1..Len(joins)
Recvs == 1..Len(recvs)
JoinsOf(h) == {j \in Joins : joins[j].h = h}
RecvsOf(h) == {r \in Recvs : recvs[r].h = h}
TimersOf(h) == {j \in timers : joins[j].h = h}
Settled(j) == joins[j].state # "pending"
Outcome(j) == <<joins[j].state, joins[j].code, joins[j].error>>

\* C1: once a handle's outcome is set it never changes, so no two join calls
\* on the same handle ever settle with different outcomes.
C1_OneOutcomePerHandle ==
  \A j, k \in Joins :
    (joins[j].h = joins[k].h /\ Settled(j) /\ Settled(k))
      => Outcome(j) = Outcome(k)

\* C2: teardown (cleanup() and worker.terminate()) runs exactly once per
\* handle: the first trigger performs it, every later trigger performs none.
C2_TeardownOnce ==
  \A h \in Handles :
    /\ completionPort1[h].cleanupCalls <= 1
    /\ worker[h].terminateCalls <= 1
    /\ handle[h].completed => completionPort1[h].cleanupCalls = 1

\* C3: a join that is pending when interrupt() is called resolves with exit
\* code 1.  Stated on the states where nothing can settle a promise of the
\* handle any more (interrupt has detached both listeners and no join timer
\* of the handle is armed): there, a join called while the handle was Running
\* is no longer pending.
C3_PendingJoinResolvedByInterrupt ==
  \A j \in Joins :
    (/\ joins[j].atCall = "running"
     /\ handle[joins[j].h].interrupted
     /\ TimersOf(joins[j].h) = {})
      => joins[j].state # "pending"

\* C4: every join called after interrupt() resolves with exit code 1 and
\* never rejects.
C4_JoinAfterInterrupt ==
  \A j \in Joins :
    joins[j].atCall = "interrupted"
      => /\ joins[j].state = "resolved"
         /\ joins[j].code = 1
         /\ joins[j].calls = 1

\* a join called after interrupt() on a handle that had already failed
C4_Witness ==
  \E j \in Joins :
    /\ joins[j].atCall = "interrupted"
    /\ joins[j].state = "resolved"
    /\ handle[joins[j].h].completionError # NoError

\* the handle became terminal by processing the unit's completion signal
CompletedBySignal(h) ==
  /\ handle[h].completed
  /\ ~handle[h].interrupted
  /\ handle[h].completionError.kind
       \notin {"Thread join timed out after ", "Worker error: "}

\* C5: when the completion signal carrying exit code c and no error is
\* processed before a join timer fired, a join(timeout) that was pending
\* resolves with c (0, the code the worker script posts) and is not rejected.
C5_CompletionResolvesJoin ==
  \A j \in Joins :
    (/\ joins[j].atCall = "running"
     /\ joins[j].timeout # Undefined
     /\ worker[joins[j].h].status = "returned"
     /\ CompletedBySignal(joins[j].h))
      => /\ joins[j].state = "resolved"
         /\ joins[j].code = 0

C7_ThrownJobRejectsJoin ==
  \A h \in Handles :
    worker[h].status = "threw"
      => /\ worker[h].signals = 1
         /\ CompletedBySignal(h)
              => /\ handle[h].completionError.kind = "Thread error: "
                 /\ handle[h].completionError.msg = worker[h].thrown
                 /\ \A j \in JoinsOf(h) : joins[j].state # "resolved"

\* C8: a join on a handle that is already terminal (success, failure or
\* timed out) settles at once with the stored outcome and changes nothing
\* else; any two such joins on one handle settle with the same outcome.
C8_JoinOnTerminal ==
  [][/\ \A h \in Handles : \A t \in Timeouts \cup {Undefined} :
          (join(h, t) /\ handle[h].completed /\ ~handle[h].interrupted)
            => LET j == Len(joins) + 1
               IN /\ Len(joins') = j
                  /\ joins'[j].calls = 1
                  /\ IF handle[h].completionError.kind # "none"
                     THEN /\ joins'[j].state = "rejected"
                          /\ joins'[j].error = handle[h].completionError
                     ELSE /\ joins'[j].state = "resolved"
                          /\ joins'[j].code = handle[h].completionCode
                  /\ \A k \in Joins : joins'[k] = joins[k]
                  /\ UNCHANGED <<handle, worker, completionPort1,
                                 messagePort1, timers>>
     /\ \A j, k \in 1..Len(joins') :
          (/\ joins'[j].h = joins'[k].h
           /\ joins'[j].atCall = "completed"
           /\ joins'[k].atCall = "completed")
            => /\ joins'[j].state = joins'[k].state
               /\ joins'[j].code = joins'[k].code
               /\ joins'[j].error = joins'[k].error
               /\ joins'[j].state # "pending"
    ]_vars

\* two joins called on a handle that had timed out
C8_Witness ==
  \E j, k \in Joins :
    /\ j < k
    /\ joins[j].h = joins[k].h
    /\ joins[j].atCall = "completed"
    /\ joins[k].atCall = "completed"
    /\ joins[j].state = "rejected"
    /\ joins[k].state = "rejected"
    /\ joins[j].error.kind = "Thread join timed out after "
    /\ joins[k].error = joins[j].error

\* the messages worker h has posted on the message channel, in order
Sent(h) ==
  [k \in 1..worker[h].nsent |-> [data |-> k, error |-> ""]]
    \o (IF worker[h].status = "threw"
        THEN <<[data |-> 0, error |-> worker[h].thrown]>> ELSE <<>>)

Received(r) == [data |-> recvs[r].data, error |-> recvs[r].error]

\* C9: the results of the recv() calls of a handle, in call order, are the
\* messages the unit sent, in send order, each returned by one recv call.
C9_RecvInSendOrder ==
  \A h \in Handles : \A r \in RecvsOf(h) :
    recvs[r].state = "resolved"
      => LET i == Cardinality({q \in RecvsOf(h) : q <= r})
         IN /\ i <= Len(Sent(h))
            /\ Received(r) = Sent(h)[i]

\* C10: a recv() called before the unit sent anything is not resolved
\* before a send, resolves with the first message the unit sends, and that
\* message is not returned again by a recv() called later.
C10_FirstRecv ==
  \A r \in Recvs :
    (recvs[r].early /\ recvs[r].state = "resolved")
      => LET h == recvs[r].h
         IN /\ Len(Sent(h)) >= 1
            /\ Received(r) = Sent(h)[1]
            /\ \A q \in RecvsOf(h) :
                 (q > r /\ recvs[q].state = "resolved")
                   => Received(q) # Received(r)

\* C11: the ids of the spawned handles are pairwise distinct, strictly
\* increasing in spawn order and never 0; Thread.id() of the initiating
\* context is 0; handle.id() keeps returning the id assigned at spawn.
C11_ThreadIds ==
  [][/\ \A h, k \in 1..Len(handle') :
          /\ handle'[h].id # 0
          /\ handle'[h].id >= 1
          /\ h < k => handle'[h].id < handle'[k].id
          /\ h # k => handle'[h].id # handle'[k].id
     /\ \A h \in Handles : handle'[h].id = handle[h].id
     /\ getThreadId = 0
    ]_vars

\* two handles have been spawned, with ids 1 and 2
C11_Witness ==
  /\ Len(handle) >= 2
  /\ handle[1].id = 1
  /\ handle[2].id = 2
  /\ \E j \in Joins : joins[j].state # "pending"

\* C12: when join was called two or more times while the handle was
\* Running, every one of those calls is settled once the handle is terminal
\* (by completion, failure or timeout) and no timer of it is left, and all
\* of them hold the same outcome.
C12_EveryWaiterSettles ==
  \A h \in Handles :
    (/\ handle[h].completed
     /\ ~handle[h].interrupted
     /\ TimersOf(h) = {})
      => \A j, k \in JoinsOf(h) :
           (joins[j].atCall = "running" /\ joins[k].atCall = "running")
             => /\ joins[j].state # "pending"
                /\ Outcome(j) = Outcome(k)

\* the messages the onmessage callbacks of handle h were invoked with
Delivered(h) ==
  {[data |-> messagePort1[h].delivered[k].data,
    error |-> messagePort1[h].delivered[k].error] :
     k \in 1..Len(messagePort1[h].delivered)}

\* C13: no message of a handle is delivered both to an onMessage callback
\* and to a recv() call.
C13_SingleConsumer ==
  \A h \in Handles : \A r \in RecvsOf(h) :
    recvs[r].state = "resolved" => Received(r) \notin Delivered(h)

\* C14: a second or further interrupt() on a handle leaves the interrupted
\* and completed flags, the stored outcome, every join already made and
\* every timer as they were, and a join made after any number of
\* interrupt() calls resolves with 1.
C14_InterruptIdempotent ==
  [][/\ \A h \in Handles :
          (/\ interruptCalls' = interruptCalls + 1
           /\ worker'[h].terminateCalls # worker[h].terminateCalls
           /\ handle[h].interrupted)
            => /\ handle'[h].interrupted /\ handle'[h].completed
               /\ handle'[h].completionCode = handle[h].completionCode
               /\ handle'[h].completionError = handle[h].completionError
               /\ handle' = handle
               /\ joins' = joins
               /\ timers' = timers
               /\ ~worker'[h].alive
     /\ \A j \in 1..Len(joins') :
          joins'[j].atCall = "interrupted"
            => /\ joins'[j].state = "resolved"
               /\ joins'[j].code = 1
               /\ handle'[joins'[j].h].interrupted
    ]_vars

\* interrupt() was called twice on the only handle and a join made
\* afterwards resolved with 1
C14_Witness ==
  /\ Len(handle) = 1
  /\ interruptCalls >= 2
  /\ worker[1].terminateCalls >= 2
  /\ handle[1].interrupted /\ handle[1].completed
  /\ \E j \in Joins : /\ joins[j].atCall = "interrupted"
                      /\ joins[j].state = "resolved"
                      /\ joins[j].code = 1

C16_BufferedUntilConsumed ==
  \A h \in Handles :
    messagePort1[h].onmessage = Null
      => \A i \in 1..(Len(Sent(h)) - Len(messagePort1[h].queue)) :
           \E r \in RecvsOf(h) : /\ recvs[r].state = "resolved"
                                 /\ Received(r) = Sent(h)[i]

C18_CompletionCancelsTimers ==
  \A h \in Handles : CompletedBySignal(h) => TimersOf(h) = {}

\* C19: once interrupt() has been called on a handle, no join timer of that
\* handle is armed.
C19_InterruptCancelsTimers ==
  \A h \in Handles : handle[h].interrupted => TimersOf(h) = {}

\* C20: after a worker error event on a Running handle the worker is
\* terminated, the join that was pending (the one called last) is rejected
\* with an error carrying the worker's message, and every join called later
\* is rejected with that same error.
C20_WorkerErrorIsTerminal ==
  \A h \in Handles :
    handle[h].completionError.kind = "Worker error: "
      => /\ ~worker[h].alive
         /\ handle[h].completed
         /\ handle[h].completionError.msg \in Faults
         /\ \A j \in JoinsOf(h) :
              (/\ joins[j].atCall = "running"
               /\ \A k \in JoinsOf(h) : joins[k].atCall = "running" => k <= j)
                => /\ joins[j].state = "rejected"
                   /\ joins[j].error = handle[h].completionError
         /\ \A j \in JoinsOf(h) :
              joins[j].atCall # "running"
                => /\ joins[j].state = "rejected"
                   /\ joins[j].error = handle[h].completionError

\* C21: a join timer that fires, a completion signal that arrives or a
\* worker error event that is raised on a handle that is already terminal
\* changes nothing of the handle (flags, stored code, stored error, waiter
\* slots), invokes no resolve or reject of any of its joins and runs no
\* terminate and no cleanup.
C21_FirstWriterWins ==
  [][(/\ interruptCalls' = interruptCalls
      /\ Len(joins') = Len(joins)
      /\ Len(handle') = Len(handle))
       => \A h \in Handles :
            handle[h].completed
              => /\ handle'[h] = handle[h]
                 /\ handle'[h].completed
                 /\ handle'[h].interrupted = handle[h].interrupted
                 /\ handle'[h].completionCode = handle[h].completionCode
                 /\ handle'[h].completionError = handle[h].completionError
                 /\ \A j \in JoinsOf(h) : joins'[j] = joins[j]
                 /\ worker'[h].terminateCalls = worker[h].terminateCalls
                 /\ worker'[h].alive = worker[h].alive
                 /\ completionPort1'[h].cleanupCalls
                      = completionPort1[h].cleanupCalls
    ]_vars

\* the timer of the only join of a handle fired after interrupt() had made
\* the handle terminal: the join is still pending and nothing was stored
C21_Witness ==
  \E h \in Handles : \E j \in Joins :
    /\ JoinsOf(h) = {j}
    /\ joins[j].timeout # Undefined
    /\ joins[j].state = "pending"
    /\ j \notin timers
    /\ handle[h].interrupted
    /\ handle[h].completionError.kind = "none"
    /\ worker[h].terminateCalls = 1
    /\ completionPort1[h].cleanupCalls = 1

\* C22: no join promise has resolve or reject invoked more than once, none
\* has both invoked, and a promise is settled exactly when one of them was
\* invoked.
C22_SettledAtMostOnce ==
  \A j \in Joins :
    /\ joins[j].calls <= 1
    /\ joins[j].calls = 0 <=> joins[j].state = "pending"
    /\ joins[j].state = "resolved" => joins[j].error.kind = "none"
    /\ joins[j].state = "rejected" => joins[j].error.kind # "none"

\* two joins with timeouts were pending when the completion signal resolved
\* the later one; the timer of the earlier one fired afterwards
C22_Witness ==
  \E j, k \in Joins :
    /\ j < k
    /\ joins[j].h = joins[k].h
    /\ joins[j].timeout # Undefined /\ joins[k].timeout # Undefined
    /\ joins[k].state = "resolved" /\ joins[k].calls = 1
    /\ joins[j].state = "pending" /\ joins[j].calls = 0
    /\ timers = {}
    /\ CompletedBySignal(joins[j].h)

\* everything that belongs to handle h
HandleState(h) ==
  <<handle[h], worker[h], messagePort1[h], completionPort1[h], TimersOf(h),
    [j \in JoinsOf(h) |-> joins[j]], [r \in RecvsOf(h) |-> recvs[r]]>>

\* C23: no step changes the state of two handles (flags, outcome, waiter
\* slots, worker, ports and message queue, timers, joins, recvs); a spawn
\* changes the id counter and the state of no existing handle.
C23_HandlesIndependent ==
  [][/\ \A h, k \in Handles :
          h # k => \/ HandleState(h)' = HandleState(h)
                   \/ HandleState(k)' = HandleState(k)
     /\ Len(handle') # Len(handle)
          => /\ \A h \in Handles : HandleState(h)' = HandleState(h)
             /\ threadIdCounter' # threadIdCounter
     /\ Len(handle') = Len(handle) => threadIdCounter' = threadIdCounter
    ]_vars

\* handle 1 was interrupted while handle 2 is Running with a message of its
\* worker queued on its own port
C23_Witness ==
  /\ Len(handle) = 2
  /\ handle[1].interrupted /\ ~worker[1].alive
  /\ ~handle[2].completed /\ ~handle[2].interrupted
  /\ worker[2].alive
  /\ messagePort1[2].queue = <<[data |-> 1, error |-> ""]>>
  /\ messagePort1[1].queue = <<>>

====
